---- MODULE Spec2Model ----
(***************************************************************************)
(* Model of soybean_monitor.py: the signal classifier get_final_strategy   *)
(* and the batch job main() that feeds it.                                 *)
(*                                                                         *)
(* Numbers.  Prices and trends are numpy float64 values in the source.     *)
(* A value is modelled as a record: a finite rational n/d (d > 0), or one  *)
(* of the IEEE specials +inf, -inf, nan that float64 division by zero      *)
(* yields (numpy does not raise on it).  Rounding error of finite float    *)
(* arithmetic is not modelled.                                             *)
(***************************************************************************)
EXTENDS Integers, Sequences, FiniteSets, TLC

VARIABLES pc, strategy_window, df, feed, revenue_data, img_path,
          current, prev, soy_pct, i, msg, notified, err, args, analysis

vars == <<pc, strategy_window, df, feed, revenue_data, img_path,
          current, prev, soy_pct, i, msg, notified, err, args, analysis>>

---------------------------------------------------------------------------
(* Bounds *)

MaxLen == 3

MaxWindow == 2

Margin == 2

---------------------------------------------------------------------------
(* Configuration, lines 13-27 *)

COMMODITY_TICKER == "ZS=F"

STOCK_TICKERS == <<"1219.TW", "1210.TW", "1215.TW">>

Tickers == {COMMODITY_TICKER} \cup {STOCK_TICKERS[k] : k \in 1..Len(STOCK_TICKERS)}

\* ticker.split('.')[0]
CodeOf(ticker) ==
    CASE ticker = "1219.TW" -> "1219"
      [] ticker = "1210.TW" -> "1210"
      [] ticker = "1215.TW" -> "1215"
      [] OTHER -> ticker

Codes == {CodeOf(STOCK_TICKERS[k]) : k \in 1..Len(STOCK_TICKERS)}

---------------------------------------------------------------------------
(* float64 values *)

Fin(n, d) == [k |-> "fin", n |-> n, d |-> d]

PosInf == [k |-> "inf", n |-> 0, d |-> 1]

NegInf == [k |-> "ninf", n |-> 0, d |-> 1]

NaN == [k |-> "nan", n |-> 0, d |-> 1]

NonFinite == {PosInf, NegInf, NaN}

IsFinite(x) == x.k = "fin"

\* x < c for a float x and an integer literal c; false for nan
Lt(x, c) == \/ x.k = "ninf"
            \/ x.k = "fin" /\ x.n < c * x.d

\* x > c for a float x and an integer literal c; false for nan
Gt(x, c) == \/ x.k = "inf"
            \/ x.k = "fin" /\ x.n > c * x.d

\* a / b on float64 (b >= 0 in the model): division by zero gives inf or nan
Div(a, b) ==
    IF b = 0
    THEN IF a > 0 THEN PosInf ELSE IF a < 0 THEN NegInf ELSE NaN
    ELSE Fin(a, b)

\* x * 100
Times100(x) == IF x.k = "fin" THEN Fin(x.n * 100, x.d) ELSE x

\* a - b on float64
Sub(a, b) ==
    IF a.k = "nan" \/ b.k = "nan" THEN NaN
    ELSE IF a.k = "fin" /\ b.k = "fin" THEN Fin(a.n * b.d - b.n * a.d, a.d * b.d)
    ELSE IF a.k = "fin" THEN (IF b.k = "inf" THEN NegInf ELSE PosInf)
    ELSE IF a.k = b.k THEN NaN
    ELSE a

---------------------------------------------------------------------------
(* get_final_strategy, lines 119-179.  The returned text is modelled by    *)
(* the pair (category, note):                                              *)
(*   [預警] WARNING_DIVERGENCE     [雙引擎] DUAL_ENGINE_BULLISH            *)
(*   [觀察] WATCH_MISPRICED        [衰退風險] DECLINE_RISK                 *)
(*   [潛在轉機] POTENTIAL_TURNAROUND   [觀望] NEUTRAL_WAIT                 *)
(*   [漲價效應] PRICING_POWER      [雙殺風險] DOUBLE_SQUEEZE               *)
(*   note: 乖離過大 OVEREXTENDED, 黃金買點 GOLDEN_ENTRY, "" NONE           *)
(***************************************************************************)

Categories == {"WARNING_DIVERGENCE", "DUAL_ENGINE_BULLISH", "WATCH_MISPRICED",
               "DECLINE_RISK", "POTENTIAL_TURNAROUND", "NEUTRAL_WAIT",
               "PRICING_POWER", "DOUBLE_SQUEEZE"}

cost_ok(soy_change) == Lt(soy_change, 0)

rev_ok(revenue_yoy) == Gt(revenue_yoy, 0)

\* plausible slip: the cost branch is tested before the divergence warning
signal_text_costfirst(stock_change, soy_change, gap, revenue_yoy) ==
    IF cost_ok(soy_change)
    THEN IF rev_ok(revenue_yoy)
         THEN IF Gt(stock_change, -2) THEN "DUAL_ENGINE_BULLISH"
              ELSE "WATCH_MISPRICED"
         ELSE IF Lt(revenue_yoy, -5) THEN "DECLINE_RISK"
         ELSE IF Lt(gap, -5) THEN "POTENTIAL_TURNAROUND"
         ELSE "NEUTRAL_WAIT"
    ELSE IF rev_ok(revenue_yoy) /\ Lt(stock_change, -4) THEN "WARNING_DIVERGENCE"
    ELSE IF rev_ok(revenue_yoy) /\ Gt(stock_change, 0) THEN "PRICING_POWER"
    ELSE "DOUBLE_SQUEEZE"

\* plausible slip: inclusive comparisons at the thresholds
signal_text_inclusive(stock_change, soy_change, gap, revenue_yoy) ==
    IF rev_ok(revenue_yoy) /\ ~Gt(stock_change, -4) /\ stock_change.k # "nan"
    THEN "WARNING_DIVERGENCE"
    ELSE IF cost_ok(soy_change)
    THEN IF rev_ok(revenue_yoy)
         THEN IF ~Lt(stock_change, -2) /\ stock_change.k # "nan"
              THEN "DUAL_ENGINE_BULLISH"
              ELSE "WATCH_MISPRICED"
         ELSE IF ~Gt(revenue_yoy, -5) /\ revenue_yoy.k # "nan" THEN "DECLINE_RISK"
         ELSE IF ~Gt(gap, -5) /\ gap.k # "nan" THEN "POTENTIAL_TURNAROUND"
         ELSE "NEUTRAL_WAIT"
    ELSE IF rev_ok(revenue_yoy) /\ Gt(stock_change, 0) THEN "PRICING_POWER"
    ELSE "DOUBLE_SQUEEZE"

\* the logic tree, lines 135-169
signal_text(stock_change, soy_change, gap, revenue_yoy) ==
    IF rev_ok(revenue_yoy) /\ Lt(stock_change, -4)
    THEN "WARNING_DIVERGENCE"
    ELSE IF cost_ok(soy_change)
    THEN IF rev_ok(revenue_yoy)
         THEN IF Gt(stock_change, -2) THEN "DUAL_ENGINE_BULLISH"
              ELSE "WATCH_MISPRICED"
         ELSE IF Lt(revenue_yoy, -5) THEN "DECLINE_RISK"
         ELSE IF Lt(gap, -5) THEN "POTENTIAL_TURNAROUND"
         ELSE "NEUTRAL_WAIT"
    ELSE IF rev_ok(revenue_yoy) /\ Gt(stock_change, 0) THEN "PRICING_POWER"
    ELSE "DOUBLE_SQUEEZE"

\* plausible slip: the buy-point note keyed on revenue instead of the price trend
note_revenue(stock_change, soy_change, gap, revenue_yoy) ==
    IF Gt(gap, 15) THEN "OVEREXTENDED"
    ELSE IF Lt(gap, -10) /\ cost_ok(soy_change) /\ Gt(revenue_yoy, -3)
    THEN "GOLDEN_ENTRY"
    ELSE "NONE"

\* the supplementary note, lines 172-174
note(stock_change, soy_change, gap, revenue_yoy) ==
    IF Gt(gap, 15) THEN "OVEREXTENDED"
    ELSE IF Lt(gap, -10) /\ cost_ok(soy_change) /\ Gt(stock_change, -4)
    THEN "GOLDEN_ENTRY"
    ELSE "NONE"

get_final_strategy(stock_change, soy_change, gap, revenue_yoy) ==
    [category |-> signal_text(stock_change, soy_change, gap, revenue_yoy),
     note     |-> note(stock_change, soy_change, gap, revenue_yoy)]

NoArgs == [stock_change |-> NaN, soy_change |-> NaN, gap |-> NaN, revenue_yoy |-> NaN]

NoAnalysis == [category |-> "unset", note |-> "unset"]

---------------------------------------------------------------------------
(* External data *)

\* sample rows of the downloaded Close table (one price per ticker)
PriceRows ==
    { [t \in Tickers |->
         CASE t = "ZS=F" -> 2 [] t = "1219.TW" -> 2 [] t = "1210.TW" -> 1 [] OTHER -> 1],
      [t \in Tickers |->
         CASE t = "ZS=F" -> 1 [] t = "1219.TW" -> 1 [] t = "1210.TW" -> 2 [] OTHER -> 0],
      [t \in Tickers |->
         CASE t = "ZS=F" -> 2 [] t = "1219.TW" -> 0 [] t = "1210.TW" -> 2 [] OTHER -> 2],
      [t \in Tickers |->
         CASE t = "ZS=F" -> 0 [] t = "1219.TW" -> 1 [] t = "1210.TW" -> 1 [] OTHER -> 1] }

NoRow == [t \in Tickers |-> 0]

Tables == UNION { [1..n -> PriceRows] : n \in 0..MaxLen }

\* the year-over-year strings the revenue feed may carry for a company
YoYStrings == {"5.5", "-6.0", "N/A"}

\* float(yoy_str): the parsed value in tenths, or a ValueError
FloatOk(str) == str \in {"5.5", "-6.0", "0"}

Float(str) ==
    CASE str = "5.5"  -> Fin(55, 10)
      [] str = "-6.0" -> Fin(-60, 10)
      [] OTHER        -> Fin(0, 1)

\* responses of the revenue endpoint: a transport error, a non-200 status,
\* a payload without the year-over-year column, or rows for some companies
Feeds ==
    { [kind |-> k, rows |-> [c \in {} |-> "0"]] : k \in {"exception", "non200", "nokey"} }
    \cup
    { [kind |-> "ok", rows |-> r] : r \in UNION { [S -> YoYStrings] : S \in SUBSET Codes } }

NoFeed == [kind |-> "unset", rows |-> [c \in {} |-> "0"]]

\* get_twse_revenue_data, lines 33-84
get_twse_revenue_data(f) ==
    IF f.kind = "ok"
    THEN [c \in DOMAIN f.rows |->
             IF FloatOk(f.rows[c]) THEN Float(f.rows[c]) ELSE Fin(0, 1)]
    ELSE [c \in {} |-> Fin(0, 1)]

\* plausible slip: a missing company defaults to a positive growth figure
revenue_get_default_one(data, code) ==
    IF code \in DOMAIN data THEN data[code] ELSE Fin(1, 1)

\* revenue_data.get(code, 0.0), line 245
revenue_get(data, code) ==
    IF code \in DOMAIN data THEN data[code] ELSE Fin(0, 1)

---------------------------------------------------------------------------
(* Table access *)

\* df.iloc[k] succeeds: position k (negative counts from the end) is in range
IlocOk(table, k) == IF k < 0 THEN -k <= Len(table) ELSE k < Len(table)

\* df.iloc[k], 0-based position k
Iloc(table, k) == IF k < 0 THEN table[Len(table) + k + 1] ELSE table[k + 1]

\* lines 219-222: prev = df.iloc[-STRATEGY_WINDOW], falling back to df.iloc[0]
prev_row(table, window) ==
    IF IlocOk(table, -window) THEN Iloc(table, -window) ELSE Iloc(table, 0)

\* ((now - ref) / ref) * 100, lines 225 and 237
pct_change(now, ref) == Times100(Div(now - ref, ref))

\* (series / series.iloc[0]) * 100 at the last row, lines 240-241
norm_last(table, ticker) ==
    Times100(Div(Iloc(table, -1)[ticker], Iloc(table, 0)[ticker]))

\* plausible slip: df.empty is never tested
df_empty_never(table) == FALSE

\* df.empty, line 214
df_empty(table) == Len(table) = 0

---------------------------------------------------------------------------
(* main(), lines 208-260.  pc is the position in main; err records the     *)
(* exception that the handler at line 259 caught, "none" when there was    *)
(* none.  STRATEGY_WINDOW (20 in the source) is configuration: the model   *)
(* picks it at start-up from 1..MaxWindow so that short tables exercise    *)
(* both sides of the window lookup.                                        *)
(***************************************************************************)

Init ==
    /\ pc = "get_data"
    /\ strategy_window \in 1..MaxWindow
    /\ df = <<>>
    /\ feed = NoFeed
    /\ revenue_data = [c \in {} |-> Fin(0, 1)]
    /\ img_path = "none"
    /\ current = NoRow
    /\ prev = NoRow
    /\ soy_pct = Fin(0, 1)
    /\ i = 1
    /\ msg = <<>>
    /\ notified = <<>>
    /\ err = "none"
    /\ args = NoArgs
    /\ analysis = NoAnalysis

\* line 211: df = get_data() returns a forward-filled Close table
GetData ==
    /\ pc = "get_data"
    /\ \E table \in Tables : df' = table
    /\ pc' = "get_revenue"
    /\ UNCHANGED <<strategy_window, feed, revenue_data, img_path, current, prev,
                   soy_pct, i, msg, notified, err, args, analysis>>

\* line 211: the download raises; the handler at line 259 logs it
GetDataFails ==
    /\ pc = "get_data"
    /\ err' = "get_data"
    /\ pc' = "done"
    /\ UNCHANGED <<strategy_window, df, feed, revenue_data, img_path, current, prev,
                   soy_pct, i, msg, notified, args, analysis>>

\* line 212: revenue_data = get_twse_revenue_data(); it never raises
GetRevenue ==
    /\ pc = "get_revenue"
    /\ \E f \in Feeds :
          /\ feed' = f
          /\ revenue_data' = get_twse_revenue_data(f)
    /\ pc' = "check_empty"
    /\ UNCHANGED <<strategy_window, df, img_path, current, prev, soy_pct, i, msg,
                   notified, err, args, analysis>>

\* line 214: if df.empty: return
CheckEmpty ==
    /\ pc = "check_empty"
    /\ pc' = IF df_empty(df) THEN "done" ELSE "plot_chart"
    /\ UNCHANGED <<strategy_window, df, feed, revenue_data, img_path, current, prev,
                   soy_pct, i, msg, notified, err, args, analysis>>

\* line 215: img_path = plot_chart(df)
PlotChart ==
    /\ pc = "plot_chart"
    /\ Len(df) > 0
    /\ img_path' = "soybean_chart.png"
    /\ pc' = "base"
    /\ UNCHANGED <<strategy_window, df, feed, revenue_data, current, prev, soy_pct,
                   i, msg, notified, err, args, analysis>>

\* line 215: plot_chart raises (data.iloc[0] on an empty table, or the
\* plotting or file write fails); the handler at line 259 logs it
PlotChartFails ==
    /\ pc = "plot_chart"
    /\ err' = "plot_chart"
    /\ pc' = "done"
    /\ UNCHANGED <<strategy_window, df, feed, revenue_data, img_path, current, prev,
                   soy_pct, i, msg, notified, args, analysis>>

\* lines 218-230: current row, window row, commodity trend, report header
ComputeBase ==
    /\ pc = "base"
    /\ current' = Iloc(df, -1)
    /\ prev' = prev_row(df, strategy_window)
    /\ soy_pct' = pct_change(Iloc(df, -1)[COMMODITY_TICKER],
                             prev_row(df, strategy_window)[COMMODITY_TICKER])
    /\ msg' = <<>>
    /\ i' = 1
    /\ pc' = "loop"
    /\ UNCHANGED <<strategy_window, df, feed, revenue_data, img_path, notified,
                   err, args, analysis>>

\* plausible slip: the report is sent one equity early
loop_done_early(idx) == idx >= Len(STOCK_TICKERS)

\* line 232: the for loop over STOCK_TICKERS is exhausted
loop_done(idx) == idx > Len(STOCK_TICKERS)

\* lines 232-252: one iteration of the loop over STOCK_TICKERS
LoopBody ==
    /\ pc = "loop"
    /\ ~loop_done(i)
    /\ LET ticker   == STOCK_TICKERS[i]
           code     == CodeOf(ticker)
           s_pct    == pct_change(current[ticker], prev[ticker])
           gap      == Sub(norm_last(df, ticker), norm_last(df, COMMODITY_TICKER))
           rev_yoy  == revenue_get(revenue_data, code)
           result   == get_final_strategy(s_pct, soy_pct, gap, rev_yoy)
       IN  /\ args' = [stock_change |-> s_pct, soy_change |-> soy_pct,
                       gap |-> gap, revenue_yoy |-> rev_yoy]
           /\ analysis' = result
           /\ msg' = Append(msg, [code |-> code, s_pct |-> s_pct, gap |-> gap,
                                  rev_yoy |-> rev_yoy, category |-> result.category,
                                  note |-> result.note])
    /\ i' = i + 1
    /\ UNCHANGED <<pc, strategy_window, df, feed, revenue_data, img_path, current,
                   prev, soy_pct, notified, err>>

\* lines 254-257 and 86-105: send_discord_notify(msg, img_path).  The
\* notifier skips the post when no webhook is configured and swallows a
\* failed post; either way main prints Done.
Notify ==
    /\ pc = "loop"
    /\ loop_done(i)
    /\ \E outcome \in {"skipped", "sent", "failed"} :
          notified' = Append(notified, [msg |-> msg, img_path |-> img_path,
                                        outcome |-> outcome])
    /\ pc' = "done"
    /\ UNCHANGED <<strategy_window, df, feed, revenue_data, img_path, current, prev,
                   soy_pct, i, msg, err, args, analysis>>

Next ==
    \/ GetData
    \/ GetDataFails
    \/ GetRevenue
    \/ CheckEmpty
    \/ PlotChart
    \/ PlotChartFails
    \/ ComputeBase
    \/ LoopBody
    \/ Notify

Spec == Init /\ [][Next]_vars

---------------------------------------------------------------------------
(* The classifier on its own: every combination of inputs around the       *)
(* thresholds, and the non-finite values main() can pass.                  *)

StockInputs == {Fin(n, 1) : n \in (-4 - Margin)..(0 + Margin)} \cup NonFinite

SoyInputs == {Fin(n, 1) : n \in (0 - Margin)..(0 + Margin)} \cup NonFinite

GapInputs == {Fin(n, 1) : n \in (-10 - Margin)..(15 + Margin)} \cup NonFinite

RevenueInputs == {Fin(n, 1) : n \in (-5 - Margin)..(0 + Margin)}

InitClassify ==
    /\ pc = "classify"
    /\ args \in [stock_change : StockInputs, soy_change : SoyInputs,
                 gap : GapInputs, revenue_yoy : RevenueInputs]
    /\ analysis = NoAnalysis
    /\ strategy_window = 1
    /\ df = <<>>
    /\ feed = NoFeed
    /\ revenue_data = [c \in {} |-> Fin(0, 1)]
    /\ img_path = "none"
    /\ current = NoRow
    /\ prev = NoRow
    /\ soy_pct = Fin(0, 1)
    /\ i = 1
    /\ msg = <<>>
    /\ notified = <<>>
    /\ err = "none"

\* one call of get_final_strategy
Classify ==
    /\ pc = "classify"
    /\ analysis' = get_final_strategy(args.stock_change, args.soy_change,
                                      args.gap, args.revenue_yoy)
    /\ pc' = "classified"
    /\ UNCHANGED <<strategy_window, df, feed, revenue_data, img_path, current, prev,
                   soy_pct, i, msg, notified, err, args>>

NextClassify == Classify

SpecClassify == InitClassify /\ [][NextClassify]_vars

---------------------------------------------------------------------------
(* Properties of the classifier (checked under SpecClassify; args and      *)
(* analysis hold the inputs and the result of the latest call)             *)

Classified == analysis # NoAnalysis

\* x = c for a float x and an integer literal c
Eq(x, c) == x.k = "fin" /\ x.n = c * x.d

\* C1: the primary category is the result of the ordered decision tree,
\* first match winning: (1) revenue > 0 and equity trend < -4 gives
\* WARNING_DIVERGENCE whatever the commodity trend and spread are; (2) else
\* with commodity trend < 0: revenue > 0 gives DUAL_ENGINE_BULLISH when the
\* equity trend > -2 and WATCH_MISPRICED otherwise, revenue < -5 gives
\* DECLINE_RISK, and otherwise spread < -5 gives POTENTIAL_TURNAROUND and
\* NEUTRAL_WAIT if not; (3) else PRICING_POWER when revenue > 0 and equity
\* trend > 0, DOUBLE_SQUEEZE otherwise.  Exactly one category is produced.
C1_CategoryDecisionTree ==
    Classified =>
      LET e   == args.stock_change
          c   == args.soy_change
          g   == args.gap
          r   == args.revenue_yoy
          cat == analysis.category
          b1  == Gt(r, 0) /\ Lt(e, -4)
          b2  == ~b1 /\ Lt(c, 0)
          b3  == ~b1 /\ ~Lt(c, 0)
      IN  /\ cat \in Categories
          /\ b1 => cat = "WARNING_DIVERGENCE"
          /\ (b2 /\ Gt(r, 0) /\ Gt(e, -2)) => cat = "DUAL_ENGINE_BULLISH"
          /\ (b2 /\ Gt(r, 0) /\ ~Gt(e, -2)) => cat = "WATCH_MISPRICED"
          /\ (b2 /\ ~Gt(r, 0) /\ Lt(r, -5)) => cat = "DECLINE_RISK"
          /\ (b2 /\ ~Gt(r, 0) /\ ~Lt(r, -5) /\ Lt(g, -5)) => cat = "POTENTIAL_TURNAROUND"
          /\ (b2 /\ ~Gt(r, 0) /\ ~Lt(r, -5) /\ ~Lt(g, -5)) => cat = "NEUTRAL_WAIT"
          /\ (b3 /\ Gt(r, 0) /\ Gt(e, 0)) => cat = "PRICING_POWER"
          /\ (b3 /\ ~(Gt(r, 0) /\ Gt(e, 0))) => cat = "DOUBLE_SQUEEZE"

\* an input matching branch 1 that also meets the raw conditions of the
\* cost-favourable branch has been classified
C1_Witness ==
    /\ pc = "classified"
    /\ Gt(args.revenue_yoy, 0) /\ Lt(args.stock_change, -4)
    /\ Lt(args.soy_change, 0) /\ Lt(args.gap, -5)
    /\ analysis.category = "WARNING_DIVERGENCE"

C4_StrictThresholds ==
    Classified =>
      LET e   == args.stock_change
          c   == args.soy_change
          g   == args.gap
          r   == args.revenue_yoy
          cat == analysis.category
      IN  /\ Eq(e, -4) => cat # "WARNING_DIVERGENCE"
          /\ Eq(g, 15) => analysis.note # "OVEREXTENDED"
          /\ Eq(e, -2) => cat # "DUAL_ENGINE_BULLISH"
          /\ Eq(r, -5) => cat # "DECLINE_RISK"
          /\ Eq(g, -5) => cat # "POTENTIAL_TURNAROUND"
          /\ Eq(g, -10) => analysis.note # "GOLDEN_ENTRY"
          /\ Eq(c, 0) => cat \in {"WARNING_DIVERGENCE", "PRICING_POWER", "DOUBLE_SQUEEZE"}
          /\ Eq(r, 0) => cat \in {"POTENTIAL_TURNAROUND", "NEUTRAL_WAIT", "DOUBLE_SQUEEZE"}

\* an input with equity trend exactly -4 and positive revenue, and spread
\* exactly 15, has been classified
C4_Witness ==
    /\ pc = "classified"
    /\ Eq(args.stock_change, -4) /\ Gt(args.revenue_yoy, 0)
    /\ Eq(args.gap, 15)
    /\ analysis.category # "WARNING_DIVERGENCE"
    /\ analysis.note = "NONE"

\* C10: an input with commodity trend < 0 and revenue < -5 (DECLINE_RISK
\* territory) never gets the GOLDEN_ENTRY qualifier.
C10_NoGoldenEntryOnDecline ==
    (Classified /\ Lt(args.soy_change, 0) /\ Lt(args.revenue_yoy, -5))
       => analysis.note \in {"OVEREXTENDED", "NONE"}

---------------------------------------------------------------------------
(* Properties of the batch job (checked under Spec)                        *)

\* the base figures of lines 218-225 have been computed
BaseComputed == pc = "loop" \/ (pc = "done" /\ Len(notified) > 0)

\* the download returned a table (it did not raise)
Acquired == pc \notin {"get_data", "get_revenue"} /\ err # "get_data"

\* C3: the trend reference row is index L-1-W when L > W and row 0 when
\* L <= W, the current row being index L-1.
C3_ReferenceRowIndex ==
    BaseComputed =>
      /\ current = Iloc(df, Len(df) - 1)
      /\ prev = IF Len(df) > strategy_window
                THEN Iloc(df, Len(df) - 1 - strategy_window)
                ELSE Iloc(df, 0)

\* C5: when the table is non-empty and chart rendering fails, the equities
\* are still classified and the report is handed to the notifier without
\* an image.
C5_ChartFailureStillReports ==
    (pc = "done" /\ err = "plot_chart" /\ Len(df) > 0) =>
      /\ Len(notified) = 1
      /\ notified[1].img_path = "none"
      /\ Len(notified[1].msg) = Len(STOCK_TICKERS)

\* C6: no classification is produced from an infinite or not-a-number
\* trend: a zero reference price stops the trend computation instead.
C6_NoClassificationFromNonFiniteTrend ==
    \A k \in 1..Len(msg) :
       msg[k].category \in Categories =>
          IsFinite(msg[k].s_pct) /\ IsFinite(soy_pct)

\* the revenue figure of a company is unavailable: the feed failed,
\* answered with a non-200 status, lacked the year-over-year column,
\* lacked the company, or carried a value that is not a number
RevenueUnavailable(code) ==
    \/ feed.kind \in {"exception", "non200", "nokey"}
    \/ feed.kind = "ok" /\ code \notin DOMAIN feed.rows
    \/ feed.kind = "ok" /\ code \in DOMAIN feed.rows /\ feed.rows[code] = "N/A"

\* C7: an equity whose revenue figure is unavailable is classified with
\* revenue 0.0 and never as WARNING_DIVERGENCE, DUAL_ENGINE_BULLISH,
\* WATCH_MISPRICED, PRICING_POWER or DECLINE_RISK; the revenue step never
\* stops the run, and the report that is sent contains that equity.
C7_UnavailableRevenueIsZero ==
    /\ \A k \in 1..Len(msg) :
          RevenueUnavailable(msg[k].code) =>
             /\ msg[k].rev_yoy = Fin(0, 1)
             /\ msg[k].category \in {"POTENTIAL_TURNAROUND", "NEUTRAL_WAIT",
                                     "DOUBLE_SQUEEZE"}
    /\ pc = "check_empty" => err = "none"
    /\ (pc = "done" /\ err = "none" /\ Len(df) > 0) =>
          /\ Len(notified) = 1
          /\ \A c \in Codes :
                \E k \in 1..Len(notified[1].msg) : notified[1].msg[k].code = c

\* a report was sent although one company was missing from the feed and
\* another carried a value that is not a number
C7_Witness ==
    /\ pc = "done"
    /\ Len(notified) = 1
    /\ feed.kind = "ok"
    /\ \E c \in Codes : c \notin DOMAIN feed.rows
    /\ \E c \in DOMAIN feed.rows : feed.rows[c] = "N/A"
    /\ \E k \in 1..Len(notified[1].msg) :
          /\ RevenueUnavailable(notified[1].msg[k].code)
          /\ notified[1].msg[k].rev_yoy = Fin(0, 1)

\* C8 as stated: with a table of 0 rows the run fails with
\* InsufficientDataError and produces no output.
C8_EmptyTableRaises ==
    (pc = "done" /\ Acquired /\ Len(df) = 0) =>
      /\ err = "InsufficientDataError"
      /\ img_path = "none" /\ msg = <<>> /\ notified = <<>>

\* C8 amended: with a table of 0 rows the run returns without raising or
\* logging any error and produces no output: no chart is rendered, no
\* equity is classified and nothing is handed to the notifier.
C8_EmptyTableSilentNoOutput ==
    (Acquired /\ Len(df) = 0) =>
      /\ pc \in {"check_empty", "done"}
      /\ err = "none"
      /\ img_path = "none"
      /\ msg = <<>>
      /\ analysis = NoAnalysis
      /\ notified = <<>>

\* a run on an empty table has ended
C8_Witness ==
    /\ pc = "done"
    /\ feed.kind # "unset"
    /\ Len(df) = 0
    /\ err = "none"

\* C9: a report handed to the notifier holds exactly one record per
\* configured ticker, in declaration order; the notifier is invoked at most
\* once and only after every equity is classified; no report is sent from a
\* run in which a step failed.
C9_ReportCompleteAndOrdered ==
    /\ Len(notified) <= 1
    /\ \A n \in 1..Len(notified) :
          /\ Len(notified[n].msg) = Len(STOCK_TICKERS)
          /\ \A k \in 1..Len(STOCK_TICKERS) :
                /\ notified[n].msg[k].code = CodeOf(STOCK_TICKERS[k])
                /\ notified[n].msg[k].category \in Categories
    /\ err # "none" => notified = <<>>
    /\ (pc = "loop" /\ i <= Len(STOCK_TICKERS)) => notified = <<>>

\* a report has been handed to the notifier
C9_Witness ==
    /\ pc = "done"
    /\ Len(notified) = 1
    /\ Len(notified[1].msg) = 3
    /\ notified[1].img_path = "soybean_chart.png"

====
